---- MODULE Spec2Model ----
(***************************************************************************)
(* SkDeque (src/core/SkDeque.cpp): a double-ended queue of fixed-size raw  *)
(* element slots kept in a doubly linked chain of Blocks, and its          *)
(* iterator SkDeque::Iter.                                                 *)
(*                                                                         *)
(* Memory is modelled by addresses.  A Block* is a block number b; the     *)
(* Block header lives at address Addr(b) and the element storage follows   *)
(* it at Addr(b) + SizeofBlock.  A char* is an integer address, NULL is 0, *)
(* and pointer arithmetic is integer arithmetic, so that NULL - fElemSize  *)
(* is the (non-null) address the machine computes.                         *)
(***************************************************************************)
EXTENDS Integers, Sequences, FiniteSets, TLC

\* ---------------------------------------------------------------- bounds
MaxCount == 3          \* Spec: pushes are offered while fCount < MaxCount
MaxIterCount == 2      \* SpecIter: pushes are offered while fCount < MaxIterCount
MaxRun == 5            \* SpecRun: the longest run of pushes at one end
MaxAllocCount == 2     \* allocCount is drawn from 1..MaxAllocCount
MaxElemSize == 2       \* elemSize is drawn from 1..MaxElemSize
MaxStorageBytes == 3   \* storageSize is sizeof(Block) + (elemSize - 1)..MaxStorageBytes

\* ------------------------------------------------------------ memory layout
NULL == 0
SizeofBlock == 40      \* five pointers: fNext, fPrev, fBegin, fEnd, fStop

MaxPayload ==
    IF MaxAllocCount * MaxElemSize > MaxStorageBytes
    THEN MaxAllocCount * MaxElemSize ELSE MaxStorageBytes

\* distance between the addresses of two Blocks (no two chunks overlap)
Stride == SizeofBlock + MaxPayload + MaxElemSize + 1

InlineBlock == 1                       \* the caller's storage, when used as a Block

\* the most elements a SkDeque of the model holds
MaxLive == IF MaxRun > MaxCount THEN MaxRun ELSE MaxCount

DynBlocks == 2 .. (MaxLive + 3)        \* chunks sk_malloc_throw can hand out
AllBlocks == {InlineBlock} \cup DynBlocks

Addr(b) == b * Stride

\* Block::start(): (char*)(this + 1)
start(b) == Addr(b) + SizeofBlock

\* Block::init(size)
init(b, size) ==
    [fNext |-> NULL, fPrev |-> NULL, fBegin |-> NULL, fEnd |-> NULL,
     fStop |-> Addr(b) + size]

\* the content of an address range that is not a Block (never allocated, or freed)
NoBlock == [fNext |-> NULL, fPrev |-> NULL, fBegin |-> NULL, fEnd |-> NULL,
            fStop |-> NULL]

VARIABLES
    fElemSize,        \* SkDeque::fElemSize
    fAllocCount,      \* SkDeque::fAllocCount
    fInitialStorage,  \* SkDeque::fInitialStorage (an address, or NULL)
    fCount,           \* SkDeque::fCount
    fFront,           \* SkDeque::fFront (a Block*, NULL or a block number)
    fBack,            \* SkDeque::fBack
    blocks,           \* the Block headers in memory, by block number
    live,             \* chunks obtained from sk_malloc_throw and not yet sk_free'd
    status,           \* "ok", "destroyed" (after ~SkDeque), "crashed"
    freedInline,      \* freeBlock was handed the caller's inline storage
    freedTwice,       \* freeBlock was handed a chunk that is not allocated
    itCurBlock,       \* SkDeque::Iter::fCurBlock
    itPos,            \* SkDeque::Iter::fPos
    itElemSize,       \* SkDeque::Iter::fElemSize
    \* ---- history variables (not program state)
    ref,              \* the reference sequence: slots returned by the pushes, front to back
    phase,            \* "pushing" (only pushes so far), "popping" (pushes, then only pops), "mixed"
    pushDir,          \* ends pushed at while phase /= "mixed": "none", "front", "back", "both"
    popDir,           \* ends popped at while phase /= "mixed"
    pushed,           \* slots returned by the pushes, in call order (while phase /= "mixed")
    observed,         \* front()/back() read before each pop, in call order (while phase /= "mixed")
    multi,            \* the chain has held more than one Block
    emptiedBy,        \* per Block marked empty: the pop that marked it, "front" or "back";
                      \* "none" for any other Block
    itDir,            \* "none", "fwd" (reset(Front), then next only), "bwd", "mixed"
    yielded           \* what next()/prev() returned since the reset (while itDir is fwd or bwd)

dequeVars == <<fElemSize, fAllocCount, fInitialStorage, fCount, fFront, fBack,
               blocks, live, status, freedInline, freedTwice>>
iterVars == <<itCurBlock, itPos, itElemSize, itDir, yielded>>
histVars == <<ref, phase, pushDir, popDir, pushed, observed, multi, emptiedBy>>
vars == <<dequeVars, iterVars, histVars>>


\* ------------------------------------------------------------- constructors
\* SkDeque(elemSize, allocCount): no storage
NoStorage(elemSize, allocCount) ==
    /\ fElemSize = elemSize
    /\ fAllocCount = allocCount
    /\ fInitialStorage = NULL
    /\ fCount = 0
    /\ fFront = NULL
    /\ fBack = NULL
    /\ blocks = [b \in AllBlocks |-> NoBlock]

\* storage is large enough to be the first Block
fitsBlock(storageSize, elemSize) == storageSize >= SizeofBlock + elemSize

\* SkDeque(elemSize, storage, storageSize, allocCount), storage at Addr(InlineBlock)
WithStorage(elemSize, storageSize, allocCount) ==
    /\ fElemSize = elemSize
    /\ fAllocCount = allocCount
    /\ fInitialStorage = Addr(InlineBlock)
    /\ fCount = 0
    /\ fFront = (IF fitsBlock(storageSize, elemSize) THEN InlineBlock ELSE NULL)
    /\ fBack = fFront
    /\ blocks = [b \in AllBlocks |->
                   IF b = InlineBlock /\ fitsBlock(storageSize, elemSize)
                   THEN init(b, storageSize) ELSE NoBlock]

Init ==
    /\ \E elemSize \in 1 .. MaxElemSize, allocCount \in 1 .. MaxAllocCount :
          \/ NoStorage(elemSize, allocCount)
          \/ \E extra \in (elemSize - 1) .. MaxStorageBytes :
                WithStorage(elemSize, SizeofBlock + extra, allocCount)
    /\ live = {}
    /\ status = "ok"
    /\ freedInline = FALSE
    /\ freedTwice = FALSE
    /\ itCurBlock = NULL /\ itPos = NULL /\ itElemSize = 0
    /\ itDir = "none" /\ yielded = <<>>
    /\ ref = <<>>
    /\ phase = "pushing" /\ pushDir = "none" /\ popDir = "none"
    /\ pushed = <<>> /\ observed = <<>>
    /\ multi = FALSE
    /\ emptiedBy = [b \in AllBlocks |-> "none"]

\* ------------------------------------------------------- allocator interface
\* sk_malloc_throw: some chunk that is not allocated (the lowest free one)
sk_malloc_throw(lv) ==
    CHOOSE b \in DynBlocks \ lv : \A c \in DynBlocks \ lv : b <= c

\* allocateBlock(allocCount): the new Block's header
allocateBlock(b) == init(b, SizeofBlock + fAllocCount * fElemSize)

\* freeBlock(block) -> sk_free(block), on memory m = [blocks, live, inl, twice]
freeBlock(m, b) ==
    IF b \in m.live
    THEN [m EXCEPT !.live = @ \ {b}, !.blocks[b] = NoBlock]
    ELSE IF Addr(b) = fInitialStorage
         THEN [m EXCEPT !.inl = TRUE]
         ELSE [m EXCEPT !.twice = TRUE]

\* ------------------------------------------------------------ chain walking
RECURSIVE walk(_, _)
\* the Blocks met from b by following fNext, as a sequence
walk(blks, b) ==
    IF b = NULL THEN <<>> ELSE <<b>> \o walk(blks, blks[b].fNext)

\* numBlocksAllocated()
numBlocks(blks, head) == Len(walk(blks, head))
numBlocksAllocated == numBlocks(blocks, fFront)

\* --------------------------------------------------------- front() / back()
\* the outcome "SkASSERT fired" of a build with assertions (not an address)
Aborted == 0 - Stride

\* front() without the step over a Block marked empty
front_noSkip ==
    IF fFront = NULL THEN {NULL} ELSE {blocks[fFront].fBegin}

\* front(): the set of results a build can produce
front ==
    IF fFront = NULL THEN {NULL}
    ELSE LET f == IF blocks[fFront].fBegin = NULL
                  THEN blocks[fFront].fNext ELSE fFront
         IN  IF f = NULL THEN {NULL}
             ELSE IF blocks[f].fBegin # NULL
                  THEN {blocks[f].fBegin}
                  ELSE {Aborted, blocks[f].fBegin}

\* back(): the set of results a build can produce
back ==
    IF fBack = NULL THEN {NULL}
    ELSE LET k == IF blocks[fBack].fEnd = NULL
                  THEN blocks[fBack].fPrev ELSE fBack
         IN  IF k = NULL THEN {NULL}
             ELSE IF blocks[k].fEnd # NULL
                  THEN {blocks[k].fEnd - fElemSize}
                  ELSE {Aborted, blocks[k].fEnd - fElemSize}


\* ------------------------------------------------------------------- pushes
\* noRoomFront with the comparison off by one
noRoomFront_offByOne(b, begin) == begin <= start(b)

\* push_front: "no more room in this chunk" (begin < first->start())
noRoomFront(b, begin) == begin < start(b)

\* noRoomBack with the comparison off by one
noRoomBack_offByOne(blk, end) == end >= blk.fStop

\* push_back: "no more room in this chunk" (end > last->fStop)
noRoomBack(blk, end) == end > blk.fStop

\* initChunkFront that takes two slots for the one element
initChunkFront_twoSlots(blk) ==
    [blk EXCEPT !.fEnd = blk.fStop, !.fBegin = blk.fStop - 2 * fElemSize]

\* push_front INIT_CHUNK: first->fEnd = first->fStop; begin = first->fStop - fElemSize
initChunkFront(blk) ==
    [blk EXCEPT !.fEnd = blk.fStop, !.fBegin = blk.fStop - fElemSize]

\* initChunkBack that leaves fEnd at fBegin
initChunkBack_endAtStart(b, blk) ==
    [blk EXCEPT !.fBegin = start(b), !.fEnd = start(b)]

\* push_back INIT_CHUNK: last->fBegin = last->start(); end = last->fBegin + fElemSize
initChunkBack(b, blk) ==
    [blk EXCEPT !.fBegin = start(b), !.fEnd = start(b) + fElemSize]

\* push_front(): the memory, the end pointers and the returned slot afterwards
push_front ==
    LET fresh  == fFront = NULL
        nb1    == sk_malloc_throw(live)
        blks1  == IF fresh THEN [blocks EXCEPT ![nb1] = allocateBlock(nb1)] ELSE blocks
        live1  == IF fresh THEN live \cup {nb1} ELSE live
        front1 == IF fresh THEN nb1 ELSE fFront
        back1  == IF fresh THEN nb1 ELSE fBack
        begin  == blks1[front1].fBegin - fElemSize
        grow   == blks1[front1].fBegin # NULL /\ noRoomFront(front1, begin)
        nb2    == sk_malloc_throw(live1)
        first  == IF grow THEN nb2 ELSE front1
        blks2  == IF grow
                  THEN [blks1 EXCEPT ![nb2] = [allocateBlock(nb2) EXCEPT !.fNext = front1],
                                     ![front1].fPrev = nb2]
                  ELSE blks1
        blks3  == IF grow \/ blks1[front1].fBegin = NULL
                  THEN [blks2 EXCEPT ![first] = initChunkFront(@)]
                  ELSE [blks2 EXCEPT ![first].fBegin = begin]
    IN  [blocks |-> blks3,
         live   |-> IF grow THEN live1 \cup {nb2} ELSE live1,
         fFront |-> first,
         fBack  |-> back1,
         ret    |-> blks3[first].fBegin]

\* push_back that allocates a Block every time, also when the back Block is
\* marked empty or has room
push_back_neverReuses ==
    LET nb   == sk_malloc_throw(live)
        blk  == initChunkBack(nb, [allocateBlock(nb) EXCEPT !.fPrev = fBack])
        blks == IF fBack = NULL
                THEN [blocks EXCEPT ![nb] = blk]
                ELSE [blocks EXCEPT ![nb] = blk, ![fBack].fNext = nb]
    IN  [blocks |-> blks,
         live   |-> live \cup {nb},
         fFront |-> IF fBack = NULL THEN nb ELSE fFront,
         fBack  |-> nb,
         ret    |-> blks[nb].fEnd - fElemSize]

\* push_back(): the memory, the end pointers and the returned slot afterwards
push_back ==
    LET fresh  == fBack = NULL
        nb1    == sk_malloc_throw(live)
        blks1  == IF fresh THEN [blocks EXCEPT ![nb1] = allocateBlock(nb1)] ELSE blocks
        live1  == IF fresh THEN live \cup {nb1} ELSE live
        back1  == IF fresh THEN nb1 ELSE fBack
        front1 == IF fresh THEN nb1 ELSE fFront
        end    == blks1[back1].fEnd + fElemSize
        grow   == blks1[back1].fBegin # NULL /\ noRoomBack(blks1[back1], end)
        nb2    == sk_malloc_throw(live1)
        last   == IF grow THEN nb2 ELSE back1
        blks2  == IF grow
                  THEN [blks1 EXCEPT ![nb2] = [allocateBlock(nb2) EXCEPT !.fPrev = back1],
                                     ![back1].fNext = nb2]
                  ELSE blks1
        blks3  == IF grow \/ blks1[back1].fBegin = NULL
                  THEN [blks2 EXCEPT ![last] = initChunkBack(last, @)]
                  ELSE [blks2 EXCEPT ![last].fEnd = end]
    IN  [blocks |-> blks3,
         live   |-> IF grow THEN live1 \cup {nb2} ELSE live1,
         fFront |-> front1,
         fBack  |-> last,
         ret    |-> blks3[last].fEnd - fElemSize]

\* --------------------------------------------------------------------- pops
\* pop_front: "we were marked empty from before" (first->fBegin == NULL)
markedEmptyFront(blk) == blk.fBegin = NULL

\* pop_back: "we were marked empty from before" (last->fEnd == NULL)
markedEmptyBack(blk) == blk.fEnd = NULL

\* shrinkFront that never marks the Block empty
shrinkFront_neverMarks(blk) == [blk EXCEPT !.fBegin = blk.fBegin + fElemSize]

\* pop_front: move fBegin up, or "mark as empty"
shrinkFront(blk) ==
    LET begin == blk.fBegin + fElemSize
    IN  IF begin < blk.fEnd
        THEN [blk EXCEPT !.fBegin = begin]
        ELSE [blk EXCEPT !.fBegin = NULL, !.fEnd = NULL]

\* shrinkBack that marks the Block empty whatever it still holds
shrinkBack_marksAlways(blk) == [blk EXCEPT !.fBegin = NULL, !.fEnd = NULL]

\* shrinkBack that never marks the Block empty
shrinkBack_neverMarks(blk) == [blk EXCEPT !.fEnd = blk.fEnd - fElemSize]

\* pop_back: move fEnd down, or "mark as empty"
shrinkBack(blk) ==
    LET end == blk.fEnd - fElemSize
    IN  IF end > blk.fBegin
        THEN [blk EXCEPT !.fEnd = end]
        ELSE [blk EXCEPT !.fBegin = NULL, !.fEnd = NULL]

\* the memory as freeBlock sees it
memory == [blocks |-> blocks, live |-> live, inl |-> freedInline, twice |-> freedTwice]

\* pop_front follows first->fNext of a Block that has none
popFrontNullDeref ==
    fFront = NULL \/ (markedEmptyFront(blocks[fFront]) /\ blocks[fFront].fNext = NULL)

\* pop_back follows last->fPrev of a Block that has none
popBackNullDeref ==
    fBack = NULL \/ (markedEmptyBack(blocks[fBack]) /\ blocks[fBack].fPrev = NULL)

\* pop_front that releases a Block as soon as it has marked it empty
pop_front_eager ==
    LET m1   == [memory EXCEPT !.blocks[fFront] = shrinkFront(@)]
        next == blocks[fFront].fNext
    IN  IF m1.blocks[fFront].fBegin = NULL /\ next # NULL
        THEN [mem    |-> freeBlock([m1 EXCEPT !.blocks[next].fPrev = NULL], fFront),
              fFront |-> next,
              fBack  |-> fBack]
        ELSE [mem |-> m1, fFront |-> fFront, fBack |-> fBack]

\* pop_front(), when it dereferences no null pointer
pop_front ==
    LET adv   == markedEmptyFront(blocks[fFront])
        first == IF adv THEN blocks[fFront].fNext ELSE fFront
        m1    == IF adv
                 THEN freeBlock([memory EXCEPT !.blocks[first].fPrev = NULL], fFront)
                 ELSE memory
    IN  [mem    |-> [m1 EXCEPT !.blocks[first] = shrinkFront(@)],
         fFront |-> first,
         fBack  |-> fBack]

\* pop_back that leaves last->fNext pointing to the Block it releases
pop_back_keepsLink ==
    LET adv  == markedEmptyBack(blocks[fBack])
        last == IF adv THEN blocks[fBack].fPrev ELSE fBack
        m1   == IF adv THEN freeBlock(memory, fBack) ELSE memory
    IN  [mem    |-> [m1 EXCEPT !.blocks[last] = shrinkBack(@)],
         fFront |-> fFront,
         fBack  |-> last]

\* pop_back(), when it dereferences no null pointer
pop_back ==
    LET adv  == markedEmptyBack(blocks[fBack])
        last == IF adv THEN blocks[fBack].fPrev ELSE fBack
        m1   == IF adv
                THEN freeBlock([memory EXCEPT !.blocks[last].fNext = NULL], fBack)
                ELSE memory
    IN  [mem    |-> [m1 EXCEPT !.blocks[last] = shrinkBack(@)],
         fFront |-> fFront,
         fBack  |-> last]


\* --------------------------------------------------------------- destructor
\* destroy that releases the head Block only
destroy_headOnly(m, head) ==
    IF head = NULL \/ Addr(head) = fInitialStorage THEN m ELSE freeBlock(m, head)

RECURSIVE destroy(_, _)
\* ~SkDeque(): the loop from head on
destroy(m, head) ==
    IF head = NULL THEN m
    ELSE LET next == m.blocks[head].fNext
         IN  destroy(IF Addr(head) # fInitialStorage THEN freeBlock(m, head) ELSE m, next)

\* ----------------------------------------------------------------- iterator
\* skipForward that skips nothing
skipForward_noSkip(b) == b

RECURSIVE skipForward(_)
\* while (NULL != fCurBlock && NULL == fCurBlock->fBegin) fCurBlock = fCurBlock->fNext
skipForward(b) ==
    IF b # NULL /\ blocks[b].fBegin = NULL THEN skipForward(blocks[b].fNext) ELSE b

\* skipBackward that skips nothing
skipBackward_noSkip(b) == b

RECURSIVE skipBackward(_)
\* while (NULL != fCurBlock && NULL == fCurBlock->fEnd) fCurBlock = fCurBlock->fPrev
skipBackward(b) ==
    IF b # NULL /\ blocks[b].fEnd = NULL THEN skipBackward(blocks[b].fPrev) ELSE b

\* Iter::reset(d, startLoc): fCurBlock and fPos afterwards
reset(startLoc) ==
    IF startLoc = "kFront_IterStart"
    THEN LET cur == skipForward(fFront)
         IN  [fCurBlock |-> cur, fPos |-> IF cur # NULL THEN blocks[cur].fBegin ELSE NULL]
    ELSE LET cur == skipBackward(fBack)
         IN  [fCurBlock |-> cur,
              fPos |-> IF cur # NULL THEN blocks[cur].fEnd - fElemSize ELSE NULL]

\* Iter::next(): fCurBlock, fPos and the returned slot, for a valid fPos
next ==
    LET n == itPos + itElemSize
    IN  IF n = blocks[itCurBlock].fEnd
        THEN LET cur == skipForward(blocks[itCurBlock].fNext)
             IN  [fCurBlock |-> cur,
                  fPos |-> IF cur # NULL THEN blocks[cur].fBegin ELSE NULL]
        ELSE [fCurBlock |-> itCurBlock, fPos |-> n]

\* Iter::prev(): fCurBlock, fPos and the returned slot, for a valid fPos
prev ==
    LET n == itPos - itElemSize
    IN  IF n < blocks[itCurBlock].fBegin
        THEN LET cur == skipBackward(blocks[itCurBlock].fPrev)
             IN  [fCurBlock |-> cur,
                  fPos |-> IF cur # NULL THEN blocks[cur].fEnd - itElemSize ELSE NULL]
        ELSE [fCurBlock |-> itCurBlock, fPos |-> n]

\* ------------------------------------------------------- history bookkeeping
Join(d, e) == IF d = "none" \/ d = e THEN e ELSE "both"

\* calls of next()/prev() past the end of the iteration that are followed
MaxOverrun == 2

\* an Iter does not survive a mutation of its SkDeque: it is dropped
DropIter ==
    /\ itCurBlock' = NULL /\ itPos' = NULL /\ itElemSize' = 0
    /\ itDir' = "none" /\ yielded' = <<>>

LogPush(dir, slot) ==
    IF phase = "pushing"
    THEN /\ phase' = "pushing" /\ pushDir' = Join(pushDir, dir) /\ popDir' = popDir
         /\ pushed' = Append(pushed, slot) /\ observed' = observed
    ELSE /\ phase' = "mixed" /\ pushDir' = "none" /\ popDir' = "none"
         /\ pushed' = <<>> /\ observed' = <<>>

LogPop(dir, seen) ==
    IF phase = "mixed"
    THEN UNCHANGED <<phase, pushDir, popDir, pushed, observed>>
    ELSE /\ phase' = "popping" /\ pushDir' = pushDir /\ popDir' = Join(popDir, dir)
         /\ pushed' = pushed /\ observed' = Append(observed, seen)

\* a call at end dir: the Blocks it marks empty are its own, the Blocks that
\* stay marked empty keep their mark's origin
LogEmptied(dir) ==
    emptiedBy' = [b \in AllBlocks |->
                    IF blocks'[b] # NoBlock /\ blocks'[b].fBegin = NULL
                    THEN (IF blocks[b] # NoBlock /\ blocks[b].fBegin = NULL
                          THEN emptiedBy[b] ELSE dir)
                    ELSE "none"]

\* ------------------------------------------------------------------ actions
PushFront ==
    /\ status = "ok"
    /\ LET r == push_front
       IN  /\ fCount' = fCount + 1
           /\ blocks' = r.blocks /\ live' = r.live
           /\ fFront' = r.fFront /\ fBack' = r.fBack
           /\ ref' = <<r.ret>> \o ref
           /\ LogPush("front", r.ret)
           /\ LogEmptied("front")
           /\ multi' = (multi \/ numBlocks(r.blocks, r.fFront) > 1)
    /\ DropIter
    /\ UNCHANGED <<fElemSize, fAllocCount, fInitialStorage, status, freedInline, freedTwice>>

PushBack ==
    /\ status = "ok"
    /\ LET r == push_back
       IN  /\ fCount' = fCount + 1
           /\ blocks' = r.blocks /\ live' = r.live
           /\ fFront' = r.fFront /\ fBack' = r.fBack
           /\ ref' = ref \o <<r.ret>>
           /\ LogPush("back", r.ret)
           /\ LogEmptied("back")
           /\ multi' = (multi \/ numBlocks(r.blocks, r.fFront) > 1)
    /\ DropIter
    /\ UNCHANGED <<fElemSize, fAllocCount, fInitialStorage, status, freedInline, freedTwice>>

\* a pop that dereferences a null Block*: the program dies
PopCrash ==
    /\ fCount' = fCount - 1
    /\ status' = "crashed"
    /\ UNCHANGED <<blocks, live, fFront, fBack, freedInline, freedTwice, ref>>

\* the state after a pop left memory m and end pointers f, b; sk_free of memory
\* that malloc never returned is undefined: the program goes on, or dies
PopDone(m, f, b) ==
    /\ fCount' = fCount - 1
    /\ blocks' = m.blocks /\ live' = m.live
    /\ freedInline' = m.inl /\ freedTwice' = m.twice
    /\ fFront' = f /\ fBack' = b
    /\ status' \in (IF (m.inl /\ ~freedInline) \/ (m.twice /\ ~freedTwice)
                    THEN {"ok", "crashed"} ELSE {"ok"})

PopFront ==
    /\ status = "ok" /\ fCount > 0
    /\ \E seen \in front : LogPop("front", seen)
    /\ IF popFrontNullDeref
       THEN PopCrash
       ELSE LET r == pop_front
            IN  /\ PopDone(r.mem, r.fFront, r.fBack)
                /\ ref' = Tail(ref)
    /\ LogEmptied("front")
    /\ multi' = multi
    /\ DropIter
    /\ UNCHANGED <<fElemSize, fAllocCount, fInitialStorage>>

PopBack ==
    /\ status = "ok" /\ fCount > 0
    /\ \E seen \in back : LogPop("back", seen)
    /\ IF popBackNullDeref
       THEN PopCrash
       ELSE LET r == pop_back
            IN  /\ PopDone(r.mem, r.fFront, r.fBack)
                /\ ref' = SubSeq(ref, 1, Len(ref) - 1)
    /\ LogEmptied("back")
    /\ multi' = multi
    /\ DropIter
    /\ UNCHANGED <<fElemSize, fAllocCount, fInitialStorage>>

\* ~SkDeque()
Destroy ==
    /\ status = "ok"
    /\ LET m == destroy(memory, fFront)
       IN  /\ blocks' = m.blocks /\ live' = m.live
           /\ freedInline' = m.inl /\ freedTwice' = m.twice
    /\ status' = "destroyed"
    /\ DropIter
    /\ UNCHANGED <<fElemSize, fAllocCount, fInitialStorage, fCount, fFront, fBack>>
    /\ UNCHANGED histVars

\* Iter::reset(d, startLoc), also Iter(d, startLoc)
IterReset ==
    /\ status = "ok"
    /\ \E startLoc \in {"kFront_IterStart", "kBack_IterStart"} :
          /\ itCurBlock' = reset(startLoc).fCurBlock
          /\ itPos' = reset(startLoc).fPos
          /\ itDir' = (IF startLoc = "kFront_IterStart" THEN "fwd" ELSE "bwd")
    /\ itElemSize' = fElemSize
    /\ yielded' = <<>>
    /\ UNCHANGED <<dequeVars, histVars>>

\* Iter::next() on an Iter that was reset
IterNext ==
    /\ status = "ok" /\ itDir # "none"
    /\ itDir = "fwd" => Len(yielded) < fCount + MaxOverrun
    /\ IF itPos # NULL
       THEN itCurBlock' = next.fCurBlock /\ itPos' = next.fPos
       ELSE UNCHANGED <<itCurBlock, itPos>>
    /\ IF itDir = "fwd"
       THEN itDir' = "fwd" /\ yielded' = Append(yielded, itPos)
       ELSE itDir' = "mixed" /\ yielded' = <<>>
    /\ UNCHANGED <<itElemSize, dequeVars, histVars>>

\* Iter::prev() on an Iter that was reset
IterPrev ==
    /\ status = "ok" /\ itDir # "none"
    /\ itDir = "bwd" => Len(yielded) < fCount + MaxOverrun
    /\ IF itPos # NULL
       THEN itCurBlock' = prev.fCurBlock /\ itPos' = prev.fPos
       ELSE UNCHANGED <<itCurBlock, itPos>>
    /\ IF itDir = "bwd"
       THEN itDir' = "bwd" /\ yielded' = Append(yielded, itPos)
       ELSE itDir' = "mixed" /\ yielded' = <<>>
    /\ UNCHANGED <<itElemSize, dequeVars, histVars>>

\* the SkDeque alone: pushes, pops and the destructor
Next ==
    \/ (fCount < MaxCount /\ PushFront)
    \/ (fCount < MaxCount /\ PushBack)
    \/ PopFront
    \/ PopBack
    \/ Destroy

Spec == Init /\ [][Next]_vars

\* the SkDeque and an Iter over it
NextIter ==
    \/ (fCount < MaxIterCount /\ PushFront)
    \/ (fCount < MaxIterCount /\ PushBack)
    \/ PopFront
    \/ PopBack
    \/ IterReset
    \/ IterNext
    \/ IterPrev

SpecIter == Init /\ [][NextIter]_vars

\* a fresh SkDeque used as a queue: up to MaxRun pushes at one end, then pops
\* at the other end
NextRun ==
    \/ (fCount < MaxRun /\ phase = "pushing" /\ pushDir \in {"none", "back"} /\ PushBack)
    \/ (fCount < MaxRun /\ phase = "pushing" /\ pushDir \in {"none", "front"} /\ PushFront)
    \/ (pushDir = "back" /\ PopFront)
    \/ (pushDir = "front" /\ PopBack)

SpecRun == Init /\ [][NextRun]_vars

\* =================================================================== claims

\* C1: after any pushes and precondition-respecting pops, fCount >= 0, and
\* front() is NULL exactly when fCount = 0, and so is back(), whatever the build.
C1_EmptySignalIffCountZero ==
    status = "ok" =>
        /\ fCount >= 0
        /\ \A r \in front : (r = NULL) <=> (fCount = 0)
        /\ \A r \in back : (r = NULL) <=> (fCount = 0)

\* the inline storage became the SkDeque's first Block
hasInlineBlock == blocks[InlineBlock] # NoBlock

\* the Blocks of the chain, from fFront by fNext
chain == walk(blocks, fFront)

\* every Block of the chain is marked empty
AllEmpty == \A i \in 1 .. Len(chain) :
                blocks[chain[i]].fBegin = NULL /\ blocks[chain[i]].fEnd = NULL

\* C2: the inline-storage Block is never handed to freeBlock, by no pop and not
\* by the destructor.
C2_InlineNeverFreed == ~freedInline

\* s is the first Len(s) entries of t
IsPrefix(s, t) == Len(s) <= Len(t) /\ \A i \in 1 .. Len(s) : s[i] = t[i]

\* the slots of s are pairwise disjoint element slots
Disjoint(s) ==
    \A i, j \in 1 .. Len(s) :
        i < j => (s[i] + fElemSize <= s[j] \/ s[j] + fElemSize <= s[i])

\* C3: on a fresh SkDeque, N push_back then pop_front calls, front() read before
\* each pop: the slots read are the slots pushed, in push order, each a slot of
\* its own, and after the N-th pop fCount is 0.
C3_PushBackPopFrontFifo ==
    (pushDir = "back" /\ popDir \in {"none", "front"}) =>
        /\ IsPrefix(observed, pushed)
        /\ Disjoint(pushed)
        /\ fCount = Len(pushed) - Len(observed)

\* a run of C3 with N = MaxRun, ended, with two elements to a Block
C3_Witness ==
    /\ pushDir = "back" /\ popDir = "front" /\ status = "ok"
    /\ Len(pushed) = MaxRun /\ Len(observed) = MaxRun /\ multi
    /\ fAllocCount = 2

\* C4: on a fresh SkDeque, N push_front then pop_back calls, back() read before
\* each pop: the slots read are the slots pushed, in push order, each a slot of
\* its own, and after the N-th pop fCount is 0.
C4_PushFrontPopBackFifo ==
    (pushDir = "front" /\ popDir \in {"none", "back"}) =>
        /\ IsPrefix(observed, pushed)
        /\ Disjoint(pushed)
        /\ fCount = Len(pushed) - Len(observed)

\* a run of C4 with N = MaxRun, ended, with two elements to a Block
C4_Witness ==
    /\ pushDir = "front" /\ popDir = "back" /\ status = "ok"
    /\ Len(pushed) = MaxRun /\ Len(observed) = MaxRun /\ multi
    /\ fAllocCount = 2

\* C5: reset(Front) then next() again and again returns the fCount slots front to
\* back, then NULL on every further call; reset(Back) then prev() returns the
\* same slots in reverse, then NULL.
C5_IterationOrder ==
    /\ itDir = "fwd" =>
          \A i \in 1 .. Len(yielded) :
              yielded[i] = (IF i <= fCount THEN ref[i] ELSE NULL)
    /\ itDir = "bwd" =>
          \A i \in 1 .. Len(yielded) :
              yielded[i] = (IF i <= fCount THEN ref[fCount + 1 - i] ELSE NULL)
    /\ (itDir \in {"fwd", "bwd"} /\ Len(yielded) >= fCount) =>
          (itPos = NULL /\ itCurBlock = NULL)

\* a forward iteration, run past its end, over a chain whose first Block is
\* marked empty and whose elements lie in two further Blocks
C5_Witness ==
    /\ itDir = "fwd" /\ Len(yielded) = fCount + MaxOverrun
    /\ fCount >= 2 /\ Len(chain) >= 3
    /\ blocks[fFront].fBegin = NULL

\* C6: once a SkDeque that has held more than one Block is drained (fCount = 0),
\* numBlocksAllocated() is at most 1 and what is left is empty.
C6_DrainedToOneBlock ==
    (status = "ok" /\ multi /\ fCount = 0) =>
        (numBlocksAllocated <= 1 /\ AllEmpty)

\* the Blocks a SkDeque may still use: allocated chunks and the inline Block
usable(b) == b \in live \/ (b = InlineBlock /\ hasInlineBlock)

\* C7: every dynamically allocated Block is released exactly once: none twice,
\* none is still pointed to by the SkDeque or its chain after its release, every
\* allocated chunk is in the chain until it is released, and none is left after
\* the destructor.
C7_BlocksReleasedOnce ==
    /\ ~freedTwice
    /\ status = "ok" =>
          /\ fFront = NULL \/ usable(fFront)
          /\ fBack = NULL \/ usable(fBack)
          /\ \A i \in 1 .. Len(chain) :
                /\ usable(chain[i])
                /\ blocks[chain[i]].fPrev = NULL \/ usable(blocks[chain[i]].fPrev)
          /\ \A b \in live : \E i \in 1 .. Len(chain) : chain[i] = b
    /\ status = "destroyed" => live = {}

\* a SkDeque destroyed while its chain held two dynamically allocated Blocks,
\* after two pop_front calls, the second of which released a Block
C7_Witness ==
    /\ status = "destroyed" /\ live = {}
    /\ fAllocCount = 1 /\ ~hasInlineBlock
    /\ phase = "popping" /\ popDir = "front" /\ Len(observed) = 2
    /\ fFront # NULL /\ fBack # fFront

\* the number of elements the inline Block holds
inlineCapacity == (blocks[InlineBlock].fStop - start(InlineBlock)) \div fElemSize

\* the inline storage is sized for exactly inlineCapacity elements
inlineExact == blocks[InlineBlock].fStop = start(InlineBlock) + inlineCapacity * fElemSize

\* C8: with inline storage sized for exactly k elements, pushed at one end: up to
\* k pushes numBlocksAllocated() is 1, after the (k+1)-th it is 2, and after
\* popping all k+1 it is 1 again, the Block left being the inline one, empty.
C8_InlineScenario ==
    (status = "ok" /\ (hasInlineBlock \/ freedInline) /\ inlineExact
        /\ pushDir \in {"none", "front", "back"}) =>
        /\ (phase = "pushing" /\ Len(pushed) <= inlineCapacity) => numBlocksAllocated = 1
        /\ (phase = "pushing" /\ Len(pushed) = inlineCapacity + 1) => numBlocksAllocated = 2
        /\ (phase = "popping" /\ Len(pushed) = inlineCapacity + 1 /\ fCount = 0) =>
              /\ numBlocksAllocated = 1
              /\ fFront = InlineBlock /\ fBack = InlineBlock
              /\ AllEmpty

\* ceil(n / d)
CeilDiv(n, d) == (n + d - 1) \div d

\* C9: on a fresh SkDeque without an inline Block, after N pushes at one end
\* numBlocksAllocated() is ceil(N / allocCount) and fCount is N.
C9_BlocksAfterPushes ==
    (status = "ok" /\ phase = "pushing" /\ pushDir \in {"none", "front", "back"}
        /\ ~hasInlineBlock) =>
        /\ fCount = Len(pushed)
        /\ numBlocksAllocated = CeilDiv(fCount, fAllocCount)

\* five push_back calls with two elements to a Block: three Blocks
C9_Witness ==
    /\ status = "ok" /\ phase = "pushing" /\ pushDir = "back" /\ ~hasInlineBlock
    /\ fElemSize = 2 /\ fAllocCount = 2
    /\ fCount = 5 /\ numBlocksAllocated = 3

\* C10: the SkDeque refines the reference sequence: fCount is its length, its
\* slots are pairwise disjoint, and while fCount > 0 front() is its first slot
\* and back() its last (a push puts the slot it returns there).
C10_RefinesSequence ==
    status = "ok" =>
        /\ fCount = Len(ref)
        /\ Disjoint(ref)
        /\ fCount > 0 => (front = {ref[1]} /\ back = {ref[Len(ref)]})

\* front() and back() both skip a Block marked empty, after pushes and pops at
\* both ends
C10_Witness ==
    /\ status = "ok" /\ phase = "mixed" /\ fCount >= 2
    /\ blocks[fFront].fBegin = NULL /\ blocks[fBack].fEnd = NULL

\* the Blocks the step hands to freeBlock
released ==
    (live \ live') \cup (IF freedInline' /\ ~freedInline THEN {InlineBlock} ELSE {})

\* the Blocks the step marks empty: non-empty before, begin and end null after
emptied ==
    {b \in AllBlocks : /\ blocks[b].fBegin # NULL /\ blocks'[b] # NoBlock
                       /\ blocks'[b].fBegin = NULL /\ blocks'[b].fEnd = NULL}

\* a pop_front step releases at most the old front Block, which an earlier
\* pop_front had marked empty and which the step advances past
ReleaseFront ==
    /\ Cardinality(released) <= 1
    /\ \A b \in released :
          /\ b = fFront /\ markedEmptyFront(blocks[b]) /\ emptiedBy[b] = "front"
          /\ fFront' = blocks[b].fNext

\* a pop_back step releases at most the old back Block, which an earlier
\* pop_back had marked empty and which the step advances past
ReleaseBack ==
    /\ Cardinality(released) <= 1
    /\ \A b \in released :
          /\ b = fBack /\ markedEmptyBack(blocks[b]) /\ emptiedBy[b] = "back"
          /\ fBack' = blocks[b].fPrev

\* the Block a pop marks empty held one element, is the end Block afterwards
\* and is not released by that pop
MarkOnly(endBlock) ==
    \A b \in emptied :
        /\ b = endBlock /\ b \notin released
        /\ blocks[b].fBegin + fElemSize = blocks[b].fEnd

\* C11 as stated: block release is lazy, a pop releases at most one Block, one
\* that an earlier pop from the same end marked empty, and the pop that takes
\* the last element of a Block marks it empty and releases nothing at all.
C11_EmptyingPopReleasesNothing ==
    [][ /\ PopFront => (ReleaseFront /\ MarkOnly(fFront'))
        /\ PopBack => (ReleaseBack /\ MarkOnly(fBack'))
        /\ ((PopFront \/ PopBack) /\ emptied # {}) => released = {}
      ]_vars

\* C11, amended: block release is lazy, a pop releases at most one Block, one
\* that an earlier pop from the same end marked empty and that it advances
\* past, and the pop that takes the last element of a Block marks it empty and
\* does not release that Block (it may release the Block it advanced past).
C11_LazyRelease ==
    [][ /\ PopFront => (ReleaseFront /\ MarkOnly(fFront'))
        /\ PopBack => (ReleaseBack /\ MarkOnly(fBack'))
        /\ (PushFront \/ PushBack) => released = {}
      ]_vars

\* three one-element Blocks, then two pop_front calls: the second released the
\* Block the first had marked empty and marked the next Block empty
C11_Witness ==
    /\ status = "ok" /\ phase = "popping" /\ popDir = "front"
    /\ fAllocCount = 1 /\ ~hasInlineBlock
    /\ Len(pushed) = 3 /\ Len(observed) = 2
    /\ Cardinality(live) = 2
    /\ blocks[fFront].fBegin = NULL /\ emptiedBy[fFront] = "front"

\* C12: in every state reached by pushes and pops with fCount > 0, the
\* assertions of front() and back() hold: past its two null checks, front()
\* reads a Block with a non-null fBegin and back() a Block with a non-null fEnd.
C12_FrontBackAssertionsHold ==
    status = "ok" => (Aborted \notin front /\ Aborted \notin back)

\* Block b is marked empty (fBegin and fEnd both NULL), or it is non-empty:
\* start() <= fBegin < fEnd <= fStop, with whole elements between them
wellFormed(b) ==
    LET blk == blocks[b]
    IN  \/ blk.fBegin = NULL /\ blk.fEnd = NULL
        \/ /\ blk.fBegin # NULL /\ blk.fEnd # NULL
           /\ start(b) <= blk.fBegin /\ blk.fBegin < blk.fEnd /\ blk.fEnd <= blk.fStop
           /\ (blk.fEnd - blk.fBegin) % fElemSize = 0

\* C13: every Block of the chain is either marked empty, fBegin and fEnd both
\* NULL, or non-empty with start() <= fBegin < fEnd <= fStop and fEnd - fBegin a
\* positive multiple of fElemSize; fBegin is NULL exactly when fEnd is.
C13_BlockRanges ==
    status = "ok" =>
        \A i \in 1 .. Len(chain) :
            /\ wellFormed(chain[i])
            /\ (blocks[chain[i]].fBegin = NULL) <=> (blocks[chain[i]].fEnd = NULL)

\* a chain with a Block marked empty, a Block holding two elements, and an
\* inline Block whose elements do not start at start()
C13_Witness ==
    /\ status = "ok" /\ hasInlineBlock
    /\ \E i \in 1 .. Len(chain) : blocks[chain[i]].fBegin = NULL
    /\ \E i \in 1 .. Len(chain) :
          blocks[chain[i]].fEnd - blocks[chain[i]].fBegin = 2 * fElemSize
    /\ \E i \in 1 .. Len(chain) :
          /\ chain[i] = InlineBlock
          /\ blocks[InlineBlock].fBegin > start(InlineBlock)

\* the chunks the step obtains from sk_malloc_throw
allocated == live' \ live

\* a push_front step: a Block is allocated exactly when there is no chain or
\* the front Block is non-empty with less than one element of room before
\* fBegin; a front Block marked empty is filled in place; an allocated Block
\* becomes the front of the chain
PushFrontAllocates ==
    /\ Cardinality(allocated) <= 1
    /\ (allocated # {}) <=>
          \/ fFront = NULL
          \/ /\ blocks[fFront].fBegin # NULL
             /\ blocks[fFront].fBegin - start(fFront) < fElemSize
    /\ (fFront # NULL /\ blocks[fFront].fBegin = NULL) =>
          (allocated = {} /\ fFront' = fFront /\ blocks'[fFront].fBegin # NULL)
    /\ \A b \in allocated :
          /\ fFront' = b /\ blocks'[b].fPrev = NULL /\ blocks'[b].fNext = fFront
          /\ blocks'[b].fBegin # NULL
          /\ IF fFront = NULL THEN fBack' = b
             ELSE fBack' = fBack /\ blocks'[fFront].fPrev = b

\* a push_back step, likewise, with the room after fEnd
PushBackAllocates ==
    /\ Cardinality(allocated) <= 1
    /\ (allocated # {}) <=>
          \/ fBack = NULL
          \/ /\ blocks[fBack].fBegin # NULL
             /\ blocks[fBack].fStop - blocks[fBack].fEnd < fElemSize
    /\ (fBack # NULL /\ blocks[fBack].fBegin = NULL) =>
          (allocated = {} /\ fBack' = fBack /\ blocks'[fBack].fBegin # NULL)
    /\ \A b \in allocated :
          /\ fBack' = b /\ blocks'[b].fNext = NULL /\ blocks'[b].fPrev = fBack
          /\ blocks'[b].fBegin # NULL
          /\ IF fBack = NULL THEN fFront' = b
             ELSE fFront' = fFront /\ blocks'[fBack].fNext = b

\* C14: a push allocates a Block if and only if the chain is empty or the Block
\* at that end is non-empty and has no room on that side; a push onto an end
\* Block marked empty reuses it and allocates nothing; a newly allocated Block
\* is linked as the new front (push_front) or new back (push_back).
C14_PushAllocation ==
    [][ /\ PushFront => PushFrontAllocates
        /\ PushBack => PushBackAllocates
      ]_vars

\* pushes only: the first filled the inline Block, which was marked empty,
\* in place, and a later push_front allocated a Block, now the front
C14_Witness ==
    /\ status = "ok" /\ phase = "pushing" /\ pushDir = "front"
    /\ hasInlineBlock /\ Cardinality(live) = 1
    /\ fBack = InlineBlock /\ fFront \in live
    /\ blocks[InlineBlock].fBegin # NULL

\* C15: while fCount = 0, whether the SkDeque was never filled or was drained
\* by pops (its chain may hold one or two Blocks marked empty), a reset from
\* either end leaves fPos and fCurBlock NULL, and every next() or prev() after
\* it returns NULL and leaves the Iter as it was.
C15_EmptyIteration ==
    (status = "ok" /\ fCount = 0 /\ itDir # "none") =>
        /\ itCurBlock = NULL /\ itPos = NULL
        /\ \A i \in 1 .. Len(yielded) : yielded[i] = NULL

\* a drained SkDeque whose chain holds two Blocks marked empty, after a reset
\* and calls that include one against the direction of the reset (prev() after
\* a reset to the front, or next() after a reset to the back)
C15_Witness ==
    /\ status = "ok" /\ fCount = 0 /\ itDir = "mixed"
    /\ Len(chain) = 2 /\ AllEmpty

\* the Block pop_front takes its element from: the front Block, or the next
\* one when the front Block is marked empty
popFrontBlock ==
    IF blocks[fFront].fBegin = NULL THEN blocks[fFront].fNext ELSE fFront

\* the Block pop_back takes its element from
popBackBlock ==
    IF blocks[fBack].fEnd = NULL THEN blocks[fBack].fPrev ELSE fBack

\* C16: a pop_front or pop_back called with fCount > 0 follows no null Block
\* link and none of its assertions fails: the end Block is not NULL; if it is
\* marked empty, its neighbour towards the interior exists and is non-empty;
\* and the moved boundary stays in the occupied range (fBegin + fElemSize <=
\* fEnd in pop_front, fEnd - fElemSize >= fBegin in pop_back).
C16_PopsSafe ==
    (status = "ok" /\ fCount > 0) =>
        /\ fFront # NULL /\ fBack # NULL
        /\ ~popFrontNullDeref /\ ~popBackNullDeref
        /\ popFrontBlock # NULL /\ popBackBlock # NULL
        /\ blocks[popFrontBlock].fBegin # NULL
        /\ blocks[popFrontBlock].fBegin + fElemSize <= blocks[popFrontBlock].fEnd
        /\ blocks[popBackBlock].fEnd # NULL
        /\ blocks[popBackBlock].fEnd - fElemSize >= blocks[popBackBlock].fBegin

\* after a pop at each end, one element is left in the interior Block of three:
\* the next pop, at either end, advances past a Block marked empty
C16_Witness ==
    /\ status = "ok" /\ fCount = 1 /\ Len(chain) = 3
    /\ blocks[fFront].fBegin = NULL /\ blocks[fBack].fEnd = NULL
    /\ emptiedBy[fFront] = "front" /\ emptiedBy[fBack] = "back"

\* the element slots Block b holds: (fEnd - fBegin) / fElemSize, 0 when marked empty
occupied(b) ==
    IF blocks[b].fBegin = NULL THEN 0
    ELSE (blocks[b].fEnd - blocks[b].fBegin) \div fElemSize

\* the element slots Block b has room for
capacity(b) == (blocks[b].fStop - start(b)) \div fElemSize

RECURSIVE SumOver(_, _)
\* f[s[1]] + ... + f[s[Len(s)]]
SumOver(f, s) == IF s = <<>> THEN 0 ELSE f[Head(s)] + SumOver(f, Tail(s))

\* C17: fCount is the number of occupied element slots summed over the Blocks
\* of the chain, (fEnd - fBegin) / fElemSize for a non-empty Block and 0 for one
\* marked empty; so fCount is at most the sum of the Blocks' capacities.
C17_CountIsOccupied ==
    status = "ok" =>
        /\ fCount = SumOver([b \in AllBlocks |-> occupied(b)], chain)
        /\ fCount <= SumOver([b \in AllBlocks |-> capacity(b)], chain)

\* two elements in one Block, beside a Block that a pop marked empty
C17_Witness ==
    /\ status = "ok" /\ fCount = 2 /\ Len(chain) = 2
    /\ \E i, j \in 1 .. 2 :
          /\ occupied(chain[i]) = 2
          /\ blocks[chain[j]].fBegin = NULL /\ emptiedBy[chain[j]] # "none"

\* the places of the chain whose Block is marked empty
emptyPlaces == {i \in 1 .. Len(chain) : blocks[chain[i]].fBegin = NULL}

\* C18: a Block marked empty can only be the Block fFront points to or the
\* Block fBack points to: no interior Block of the chain is empty, the chain
\* holds at most two Blocks marked empty, and while fCount > 0 no two adjacent
\* Blocks are both empty.
C18_EmptyOnlyAtEnds ==
    status = "ok" =>
        /\ \A i \in emptyPlaces : chain[i] = fFront \/ chain[i] = fBack
        /\ \A i \in emptyPlaces : i = 1 \/ i = Len(chain)
        /\ Cardinality(emptyPlaces) <= 2
        /\ fCount > 0 => \A i \in emptyPlaces : (i + 1) \notin emptyPlaces

\* pushes, then pops at both ends: three Blocks, the two end Blocks marked
\* empty around the Block with the element left
C18_Witness ==
    /\ status = "ok" /\ phase = "popping" /\ popDir = "both"
    /\ fCount > 0 /\ Len(chain) = 3
    /\ emptyPlaces = {1, 3}

RECURSIVE follow(_, _)
\* the Blocks met from b in at most n steps along fNext
follow(b, n) ==
    IF b = NULL \/ n = 0 THEN <<>> ELSE <<b>> \o follow(blocks[b].fNext, n - 1)

\* the Blocks the SkDeque holds: allocated chunks and the inline Block
held == live \cup (IF hasInlineBlock /\ ~freedInline THEN {InlineBlock} ELSE {})

\* C19: fFront and fBack are both NULL or both non-null; when non-null, fFront
\* is the head of the chain (fPrev NULL), fBack is its tail (fNext NULL) and is
\* reached from fFront along fNext; fNext and fPrev agree and the chain has no
\* cycle, so numBlocksAllocated() and the destructor visit every Block held.
C19_ChainLinked ==
    status = "ok" =>
        LET c == follow(fFront, Cardinality(AllBlocks) + 1)
        IN  /\ (fFront = NULL) <=> (fBack = NULL)
            /\ Len(c) <= Cardinality(AllBlocks)
            /\ \A i, j \in 1 .. Len(c) : i < j => c[i] # c[j]
            /\ fFront # NULL =>
                  /\ blocks[fFront].fPrev = NULL
                  /\ blocks[fBack].fNext = NULL
                  /\ c[Len(c)] = fBack
            /\ \A i \in 1 .. (Len(c) - 1) : blocks[c[i + 1]].fPrev = c[i]
            /\ {c[i] : i \in 1 .. Len(c)} = held
            /\ numBlocksAllocated = Cardinality(held)

\* Blocks linked at both ends by three pushes, then two pop_back calls, the
\* second of which released the back Block and unlinked it from the chain
C19_Witness ==
    /\ status = "ok" /\ phase = "popping" /\ pushDir = "both" /\ popDir = "back"
    /\ fAllocCount = 1 /\ ~hasInlineBlock
    /\ Len(pushed) = 3 /\ Len(observed) = 2
    /\ Len(chain) = 2 /\ Cardinality(live) = 2

====
